---- MODULE Spec2Model ----
(***************************************************************************)
(* Model of ControladorSistemaRiego (src/src/controller.py) with its       *)
(* actuator drivers (src/src/actuators.py) and decision engine             *)
(* (src/src/decision_engine.py).                                           *)
(*                                                                         *)
(* Threads: the supervisor loop "sup" (ControladorSistemaRiego.iniciar),   *)
(* which also runs the scheduler callbacks, and the irrigation threads     *)
(* started by _iniciar_evento_riego, each running _controlar_riego.        *)
(* A `with self.lock:` block that only touches memory is one atomic step;  *)
(* every driver call and every step outside the lock is a step of its own. *)
(*                                                                         *)
(* Units: sensor readings are in tenths (the code rounds them to one       *)
(* decimal), water volumes in millilitres, flow in L/min, time in seconds. *)
(***************************************************************************)
EXTENDS Integers, Sequences, FiniteSets, TLC

VARIABLES
    pc,                         \* position of every thread
    decision,                   \* the decision dict each thread is applying
    lock,                       \* holder of self.lock across a non-atomic block
    is_busy,                    \* self.is_busy
    control_mode,               \* self.control_mode
    estado,                     \* ActuatorBase.estado of the four drivers
    actuator_states,            \* self.actuator_states
    total_daily_water,          \* self.total_daily_water (ml)
    remaining_daily_water,      \* self.remaining_daily_water (ml)
    daily_fertilizer_percentage,\* self.daily_fertilizer_percentage
    irrigation_schedule,        \* self.irrigation_schedule (jobs it installed)
    jobs,                       \* the scheduler's job list
    sync_jobs,                  \* its jobs for the cloud, counted by target
    hora,                       \* wall clock: index into HorasDelDia
    season,                     \* what _get_current_season() returns now
    sensor_values,              \* the snapshot of the current cycle
    nuevo_modo_control,         \* local of _tomar_decision
    model_loaded,               \* decision_engine.model is not None
    riego,                      \* locals of _controlar_riego, per thread
    hist                        \* history of the current day and plan

vars == <<pc, decision, lock, is_busy, control_mode, estado, actuator_states,
          total_daily_water, remaining_daily_water, daily_fertilizer_percentage,
          irrigation_schedule, jobs, sync_jobs, hora, season, sensor_values,
          nuevo_modo_control, model_loaded, riego, hist>>

----------------------------------------------------------------------------
(* Bounds of the model *)

\* seconds between two flow readings of the metering loop (the loop sleeps
\* 1 s per iteration; the model takes coarse steps)
DeltaTiempo == 900

\* cap on the scheduler's job list (only reached if jobs were additive)
MaxJobs == 4

\* longest count of event firings since the last re-plan
MaxK == 3

\* cap on each count of cloud jobs in the scheduler's list
MaxSync == 2

----------------------------------------------------------------------------
(* Program constants *)

tiempo_maximo_riego == 1800
max_fertilizer_time == 10

None == "None"

\* self.lock is held by nobody
Libre == -1

\* thread 0 is the supervisor; thread 1 runs _controlar_riego. The triggers
\* of a day are hours apart and a run lasts at most tiempo_maximo_riego, so
\* an event fires after the thread of the previous event has ended
Sup == 0
Riego == {1}
Threads == {Sup} \cup Riego

Actuators == {"bomba", "valvula_riego", "valvula_suministro", "valvula_fertilizante"}

Seasons == {"summer", "autumn", "winter", "spring"}

\* hours of the day the clock distinguishes: midnight and the trigger times
HorasDelDia == <<0, 6, 8, 12, 16, 18>>

NextSeason(s) ==
    CASE s = "summer" -> "autumn"
      [] s = "autumn" -> "winter"
      [] s = "winter" -> "spring"
      [] OTHER        -> "summer"

----------------------------------------------------------------------------
(* Python dicts: functions over the keys that are present *)

EmptyDict == [k \in {} |-> FALSE]

Get(d, k, default) == IF k \in DOMAIN d THEN d[k] ELSE default

Put(d, k, v) == [x \in DOMAIN d \cup {k} |-> IF x = k THEN v ELSE d[x]]

\* truth value of dict.get(k) for a boolean field
Flag(d, k) == Get(d, k, FALSE) = TRUE

Max(a, b) == IF a >= b THEN a ELSE b

----------------------------------------------------------------------------
(* Thresholds and rules of the arbiter. Readings are in tenths. *)

SensorKeys == {"humidity", "temperature", "ph", "ce", "water_level", "flow_rate"}

Band(lo, hi) == [min |-> lo, max |-> hi]

\* the season table shared by the controller and the decision engine,
\* up to the minimum of the flow band
TablaUmbrales(s, flow_min) ==
    LET hum  == CASE s = "summer" -> Band(200, 800)
                  [] s \in {"autumn", "spring"} -> Band(250, 750)
                  [] s = "winter" -> Band(300, 700)
                  [] OTHER -> Band(200, 800)
        temp == CASE s = "summer" -> Band(150, 400)
                  [] s \in {"autumn", "spring"} -> Band(100, 300)
                  [] s = "winter" -> Band(50, 250)
                  [] OTHER -> Band(100, 350)
    IN  [humidity    |-> hum,
         temperature |-> temp,
         ph          |-> Band(55, 75),
         ce          |-> Band(10, 25),
         water_level |-> Band(200, 800),
         flow_rate   |-> Band(flow_min, 600)]

\* a table whose flow band starts at zero
UmbralesSinCaudalMinimo(s) == TablaUmbrales(s, 0)

\* ControladorSistemaRiego._verificar_umbrales: the table it builds
UmbralesControlador(s) == TablaUmbrales(s, 10)

\* DecisionEngine._definir_umbrales_por_estacion
_definir_umbrales_por_estacion(s) == TablaUmbrales(s, 0)

\* a check that would reject a reading equal to a bound
DentroDeUmbralesEstricto(umbrales, sv) ==
    \A k \in SensorKeys :
        k \in DOMAIN sv => (umbrales[k].min < sv[k] /\ sv[k] < umbrales[k].max)

\* the loop shared by both threshold checks: absent readings are skipped
DentroDeUmbrales(umbrales, sv) ==
    \A k \in SensorKeys :
        k \in DOMAIN sv => (umbrales[k].min <= sv[k] /\ sv[k] <= umbrales[k].max)

\* a check that lets every snapshot through
_verificar_umbrales_siempre(sv, s) == TRUE

\* ControladorSistemaRiego._verificar_umbrales, for the season read now
_verificar_umbrales(sv, s) == DentroDeUmbrales(UmbralesControlador(s), sv)

\* ControladorSistemaRiego._acciones_emergencia
_acciones_emergencia(sv) ==
    LET d0 == EmptyDict
        d1 == IF sv.humidity < 200
              THEN Put(Put(d0, "activar_bomba", TRUE), "abrir_valvula_riego", TRUE)
              ELSE IF sv.humidity > 800
              THEN Put(Put(d0, "activar_bomba", FALSE), "abrir_valvula_riego", FALSE)
              ELSE d0
        d2 == IF sv.temperature > 350
              THEN Put(Put(d1, "activar_bomba", TRUE), "abrir_valvula_riego", TRUE)
              ELSE IF sv.temperature < 100
              THEN Put(Put(d1, "activar_bomba", FALSE), "abrir_valvula_riego", FALSE)
              ELSE d1
        d3 == IF sv.ph < 55 \/ sv.ph > 75
              THEN Put(Put(d2, "inyectar_fertilizante", TRUE), "porcentaje_fertilizante", 5)
              ELSE d2
        d4 == IF sv.ce < 10
              THEN Put(Put(d3, "inyectar_fertilizante", TRUE), "porcentaje_fertilizante", 10)
              ELSE IF sv.ce > 25
              THEN Put(d3, "abrir_valvula_suministro", TRUE)
              ELSE d3
        d5 == IF "water_level" \in DOMAIN sv
              THEN IF sv.water_level < 200
                   THEN Put(d4, "abrir_valvula_suministro", TRUE)
                   ELSE IF sv.water_level > 800
                   THEN Put(d4, "abrir_valvula_suministro", FALSE)
                   ELSE d4
              ELSE d4
    IN  d5

\* the all-off decision the decision engine starts every rule set from
DecisionBase ==
    [activar_bomba |-> FALSE, abrir_valvula_riego |-> FALSE,
     inyectar_fertilizante |-> FALSE, abrir_valvula_suministro |-> FALSE,
     porcentaje_fertilizante |-> 0, cantidad_agua |-> 0]

\* DecisionEngine.acciones_emergencia (water in ml: 10 litres = 10000)
acciones_emergencia(um, sv) ==
    LET d0 == DecisionBase
        d1 == IF Get(sv, "humidity", 0) < um.humidity.min
              THEN [d0 EXCEPT !.activar_bomba = TRUE, !.abrir_valvula_riego = TRUE,
                              !.cantidad_agua = 10000]
              ELSE IF Get(sv, "humidity", 1000) > um.humidity.max
              THEN [d0 EXCEPT !.activar_bomba = FALSE, !.abrir_valvula_riego = FALSE]
              ELSE d0
        d2 == IF Get(sv, "temperature", 0) > um.temperature.max
              THEN [d1 EXCEPT !.activar_bomba = TRUE, !.abrir_valvula_riego = TRUE,
                              !.cantidad_agua = 10000]
              ELSE IF Get(sv, "temperature", 1000) < um.temperature.min
              THEN [d1 EXCEPT !.activar_bomba = FALSE, !.abrir_valvula_riego = FALSE]
              ELSE d1
        d3 == IF Get(sv, "ph", 70) < um.ph.min \/ Get(sv, "ph", 70) > um.ph.max
              THEN [d2 EXCEPT !.inyectar_fertilizante = TRUE,
                              !.porcentaje_fertilizante = 5]
              ELSE d2
        d4 == IF Get(sv, "ce", 0) < um.ce.min
              THEN [d3 EXCEPT !.inyectar_fertilizante = TRUE,
                              !.porcentaje_fertilizante = 10]
              ELSE IF Get(sv, "ce", 1000) > um.ce.max
              THEN [d3 EXCEPT !.abrir_valvula_suministro = TRUE]
              ELSE d3
        d5 == IF "water_level" \in DOMAIN sv
              THEN IF sv.water_level < um.water_level.min
                   THEN [d4 EXCEPT !.abrir_valvula_suministro = TRUE]
                   ELSE IF sv.water_level > um.water_level.max
                   THEN [d4 EXCEPT !.abrir_valvula_suministro = FALSE]
                   ELSE d4
              ELSE d4
    IN  d5

\* default rules that irrigate whatever the readings are
_decisiones_por_defecto_riega(um, sv) ==
    [DecisionBase EXCEPT !.activar_bomba = TRUE, !.abrir_valvula_riego = TRUE,
                         !.cantidad_agua = 10000]

\* DecisionEngine._decisiones_por_defecto
_decisiones_por_defecto(um, sv) ==
    LET d0 == DecisionBase
        d1 == IF Get(sv, "humidity", 1000) < um.humidity.min
              THEN [d0 EXCEPT !.activar_bomba = TRUE, !.abrir_valvula_riego = TRUE,
                              !.cantidad_agua = 10000]
              ELSE d0
        d2 == IF Get(sv, "ce", 25) < um.ce.min
              THEN [d1 EXCEPT !.inyectar_fertilizante = TRUE,
                              !.porcentaje_fertilizante = 5]
              ELSE IF Get(sv, "ce", 10) > um.ce.max
              THEN [d1 EXCEPT !.inyectar_fertilizante = FALSE]
              ELSE d1
        d3 == [d2 EXCEPT !.abrir_valvula_suministro =
                            Get(sv, "water_level", 1000) < um.water_level.min]
    IN  d3

\* a mapping that irrigates whenever the predicted water is positive
_generar_decisiones_sin_humedad(porcentaje_fertilizante, cantidad_agua, sv, um) ==
    LET d0 == DecisionBase
        d1 == IF cantidad_agua > 0
              THEN [d0 EXCEPT !.activar_bomba = TRUE, !.abrir_valvula_riego = TRUE,
                              !.cantidad_agua = cantidad_agua]
              ELSE d0
        d2 == IF porcentaje_fertilizante > 0
              THEN [d1 EXCEPT !.inyectar_fertilizante = TRUE,
                              !.porcentaje_fertilizante = porcentaje_fertilizante]
              ELSE d1
    IN  [d2 EXCEPT !.abrir_valvula_suministro =
                      Get(sv, "water_level", 1000) < um.water_level.min]

\* DecisionEngine._generar_decisiones
_generar_decisiones(porcentaje_fertilizante, cantidad_agua, sv, um) ==
    LET d0 == DecisionBase
        d1 == IF cantidad_agua > 0 /\ Get(sv, "humidity", 1000) < um.humidity.max
              THEN [d0 EXCEPT !.activar_bomba = TRUE, !.abrir_valvula_riego = TRUE,
                              !.cantidad_agua = cantidad_agua]
              ELSE d0
        d2 == IF porcentaje_fertilizante > 0
              THEN [d1 EXCEPT !.inyectar_fertilizante = TRUE,
                              !.porcentaje_fertilizante = porcentaje_fertilizante]
              ELSE d1
        d3 == [d2 EXCEPT !.abrir_valvula_suministro =
                            Get(sv, "water_level", 1000) < um.water_level.min]
    IN  d3

\* an engine that answers a missing model or a failed prediction with
\* the empty decision
evaluar_sin_respaldo(sv, loaded, pred) ==
    LET um == _definir_umbrales_por_estacion(Get(sv, "season", "unknown"))
    IN  IF ~DentroDeUmbrales(um, sv)
        THEN acciones_emergencia(um, sv)
        ELSE IF ~loaded \/ ~pred.ok
        THEN EmptyDict
        ELSE _generar_decisiones(Max(0, pred.porcentaje), Max(0, pred.agua), sv, um)

\* DecisionEngine.evaluar; pred is what scaler.transform/model.predict give:
\* a failure (an exception or an unexpected shape) or percent and water
evaluar(sv, loaded, pred) ==
    LET um == _definir_umbrales_por_estacion(Get(sv, "season", "unknown"))
    IN  IF ~DentroDeUmbrales(um, sv)
        THEN acciones_emergencia(um, sv)
        ELSE IF ~loaded
        THEN _decisiones_por_defecto(um, sv)
        ELSE IF ~pred.ok
        THEN _decisiones_por_defecto(um, sv)
        ELSE _generar_decisiones(Max(0, pred.porcentaje), Max(0, pred.agua), sv, um)

----------------------------------------------------------------------------
(* The anomaly detector. Flows are in tenths of L/min. *)

\* calibration_params.get('expected_flow', 30)
expected_flow_nominal == 300

\* calibration_params.get('tolerance', 0.2), in percent
tolerance == 20

\* calibration_params.get('minimal_flow_threshold', 0.5)
minimal_flow_threshold == 5

\* last_reading is None: a value no reading takes
SinLectura == -1

\* a detector that never reports flow when none is expected
detectar_fallo_sin_fuga(last_reading, expected_flow) ==
    IF last_reading = SinLectura
    THEN TRUE
    ELSE IF expected_flow = 0
    THEN FALSE
    ELSE \/ last_reading * 100 < expected_flow * (100 - tolerance)
         \/ last_reading * 100 > expected_flow * (100 + tolerance)

\* FlowSensor.detectar_fallo, called with an expected flow
detectar_fallo(last_reading, expected_flow) ==
    IF last_reading = SinLectura
    THEN TRUE
    ELSE IF expected_flow = 0
    THEN last_reading > minimal_flow_threshold
    ELSE \/ last_reading * 100 < expected_flow * (100 - tolerance)
         \/ last_reading * 100 > expected_flow * (100 + tolerance)

\* _verificar_anomalias: the flow expected for the registry's pump and
\* irrigation valve entries
FlujoEsperado(st) ==
    IF st["bomba"] /\ st["valvula_riego"] THEN expected_flow_nominal ELSE 0

\* _verificar_anomalias: the verdict for a snapshot and a registry
_verificar_anomalias(sv, st) ==
    detectar_fallo(Get(sv, "flow_rate", 0), FlujoEsperado(st))

----------------------------------------------------------------------------
(* Inputs the environment can supply *)

\* flows around every limit of the detector, and no reading
FlujosBorde == {0, 5, 6, 50, 239, 240, 280, 300, 360, 361, 400, SinLectura}

\* readings _leer_sensores can return (season is added when they are taken)
MuestraNormal ==
    [humidity |-> 450, temperature |-> 200, ph |-> 65, ce |-> 12,
     water_level |-> 700, flow_rate |-> 100]

Muestras ==
    { MuestraNormal,
      [MuestraNormal EXCEPT !.humidity = 150],
      [MuestraNormal EXCEPT !.ce = 5],
      [MuestraNormal EXCEPT !.flow_rate = 0] }

\* a dry summer snapshot: humidity 15 %, pH 6.5, CE 2.0, water level 50 %
MuestraSeca ==
    [humidity |-> 150, temperature |-> 200, ph |-> 65, ce |-> 20,
     water_level |-> 500, flow_rate |-> 100]

\* the values of one reading around its band: each bound and the nearest
\* value beyond it (a tenth, the resolution _leer_sensores rounds to)
Bordes(b) == {b.min - 1, b.min, b.max, b.max + 1}

\* the snapshots whose readings sit on or just beyond the bounds of season
\* s, with the water level present or not, and the dry snapshot
LecturasBorde(s) ==
    LET um == UmbralesControlador(s)
        completas == { [humidity |-> h, temperature |-> t, ph |-> p, ce |-> c,
                        water_level |-> w, flow_rate |-> f] :
                          h \in Bordes(um.humidity), t \in Bordes(um.temperature),
                          p \in Bordes(um.ph), c \in Bordes(um.ce),
                          w \in Bordes(um.water_level), f \in Bordes(um.flow_rate) }
        sin_nivel == { [humidity |-> h, temperature |-> t, ph |-> p, ce |-> c,
                        flow_rate |-> f] :
                          h \in Bordes(um.humidity), t \in Bordes(um.temperature),
                          p \in Bordes(um.ph), c \in Bordes(um.ce),
                          f \in Bordes(um.flow_rate) }
    IN  completas \cup sin_nivel \cup {MuestraSeca}

\* what the model's predict can give: a failure, or fertilizer percent and
\* water in ml
Predicciones ==
    { [ok |-> FALSE, porcentaje |-> 0, agua |-> 0],
      [ok |-> TRUE, porcentaje |-> 5, agua |-> 10000] }

\* predictions on both sides of zero, and a failure
PrediccionesBorde ==
    { [ok |-> FALSE, porcentaje |-> 0, agua |-> 0] } \cup
    { [ok |-> TRUE, porcentaje |-> q, agua |-> w] :
          q \in {-5, 0, 5}, w \in {-10000, 0, 10000} }

\* what gui.recibir_comandos can return
ComandosManuales ==
    { EmptyDict,
      [activar_bomba |-> TRUE, abrir_valvula_riego |-> TRUE],
      [inyectar_fertilizante |-> TRUE, porcentaje_fertilizante |-> 50] }

\* every command _accionar_actuadores can be given: each field on or off,
\* with no fertilizer to inject or half of the maximum, and the emergency
\* decision that has the supply valve field alone
Comandos ==
    { [activar_bomba |-> b, abrir_valvula_riego |-> v, inyectar_fertilizante |-> f,
       porcentaje_fertilizante |-> q, abrir_valvula_suministro |-> s] :
          b \in BOOLEAN, v \in BOOLEAN, f \in BOOLEAN, q \in {0, 50}, s \in BOOLEAN }
    \cup { [abrir_valvula_suministro |-> TRUE] }

\* what gui.obtener_modo_control can return
Modos == {"automatic", "manual"}

\* what flow_sensor.leer() can return inside the metering loop (L/min), when
\* it does not fail and return None
LecturasFlujo == {0, 1}

----------------------------------------------------------------------------
(* The scheduler: a job has the hour it runs at and whether it is due *)

Job(i, h) == [id |-> i, at |-> h, due |-> FALSE]

JobIds == 1..MaxJobs

FreshId(js) == CHOOSE i \in JobIds : i \notin {j.id : j \in js}
                                    /\ \A k \in JobIds : k < i => k \in {j.id : j \in js}

\* a re-plan that cancels nothing
CancelJobsNinguno(js, ids) == js

\* schedule.cancel_job for every job of a list
CancelJobs(js, ids) == {j \in js : \A n \in 1..Len(ids) : ids[n] # j.id}

\* the trigger times _programar_riego_diario chooses
IrrigationTimes(s) ==
    IF s = "summer" THEN <<6, 18>>
    ELSE IF s = "winter" THEN <<12>>
    ELSE <<8, 16>>

RECURSIVE InstallJobs(_, _, _)
\* schedule.every().day.at(t).do(...) for each time, appended to the list
InstallJobs(js, ids, times) ==
    IF times = <<>> THEN [jobs |-> js, ids |-> ids]
    ELSE LET i == FreshId(js)
         IN  InstallJobs(js \cup {Job(i, Head(times))}, Append(ids, i), Tail(times))

\* ControladorSistemaRiego._programar_riego_diario
_programar_riego_diario(js, ids, s) ==
    InstallJobs(CancelJobs(js, ids), <<>>, IrrigationTimes(s))

----------------------------------------------------------------------------
(* Initial state: the controller as __init__ leaves it *)

\* an attribute __init__ does not create; <<v>> once assigned
Unassigned == <<>>

RiegoIdle == [total_volume |-> 0, elapsed |-> 0]

\* history kept for the properties: whether an event has deducted water
\* today, how many events fired since the budget was last established (up
\* to MaxK), what the last firing did, whether the driver call just made
\* by _accionar_actuadores reached the hardware (GPIO.output), and whether
\* a command is being applied for the first or the second time in a row,
\* and what the model's predict gave to the decision just taken (no
\* element if predict was not called), and what detectar_fallo returned
\* to the anomaly check of the cycle
Contar(k) == IF k < MaxK THEN k + 1 ELSE k

\* line 104: after construction the scheduler holds the weekly job that
\* calls _programar_sincronizacion_semanal, no job that calls
\* _sincronizar_con_nube and no hourly retry
SinTareasDeNube == [sincronizar |-> 0, reintento |-> 0]

HistInit == [consumido |-> FALSE, k |-> 0, evento |-> "none", llamada |-> FALSE,
             vez |-> 1, pred |-> {}, anomalia |-> FALSE]

Init ==
    /\ pc = [t \in Threads |-> IF t = Sup THEN "run_pending" ELSE "idle"]
    /\ decision = [t \in Threads |-> EmptyDict]
    /\ lock = Libre
    /\ is_busy = FALSE
    /\ control_mode = "automatic"
    /\ estado = [a \in Actuators |-> FALSE]
    /\ actuator_states = [a \in Actuators |-> FALSE]
    /\ total_daily_water = 0
    /\ remaining_daily_water = 0
    /\ daily_fertilizer_percentage = Unassigned
    /\ season \in Seasons
    /\ hora = 1
    /\ LET p == _programar_riego_diario({}, <<>>, season)
       IN  jobs = p.jobs /\ irrigation_schedule = p.ids
    /\ sync_jobs = SinTareasDeNube
    /\ sensor_values = EmptyDict
    /\ nuevo_modo_control = None
    /\ model_loaded \in BOOLEAN
    /\ riego = [r \in Riego |-> RiegoIdle]
    /\ hist = HistInit

----------------------------------------------------------------------------
(* Actuator drivers (ActuatorBase) and the registry *)

\* ActuatorBase.activar / ValveControl.abrir_valvula
activar(e, a) == [e EXCEPT ![a] = TRUE]

\* a driver whose switch-off call does nothing
desactivar_nada(e, a) == e

\* ActuatorBase.desactivar / ValveControl.cerrar_valvula
desactivar(e, a) == [e EXCEPT ![a] = FALSE]

\* the driver call _accionar_actuadores makes for a field of the decision
Conmutar(e, a, on) == IF on THEN activar(e, a) ELSE desactivar(e, a)

\* "if not self.estado" / "if self.estado": the driver writes the pin
\* (GPIO.output) only when the call changes its estado
LlamaHardware(e, a, on) == e[a] # on

Goto(t, l) == pc' = [pc EXCEPT ![t] = l]

\* where _accionar_actuadores returns to
AfterAccionar(t) == IF t = Sup THEN "anomalias" ELSE "medir"

\* where an exception raised inside _accionar_actuadores is caught: the
\* cycle of iniciar (logged, then the cooldown) or the except branch of
\* _controlar_riego
ErrorAccionar(t) == IF t = Sup THEN "cooldown" ELSE "err_bomba"

\* One driver call for actuator a with target on.  F is the set of outcomes
\* the pin write may have (TRUE: it returns, FALSE: it raises).  The driver
\* assigns estado before it writes the pin, so a failed write leaves estado
\* at the target; a call that does not reach the pin cannot fail.
LlamadaDriver(t, a, on, F, ok_pc, err_pc) ==
    \E ok \in F :
        /\ ~ok => LlamaHardware(estado, a, on)
        /\ estado' = Conmutar(estado, a, on)
        /\ hist' = [hist EXCEPT !.llamada = LlamaHardware(estado, a, on)]
        /\ Goto(t, IF ok THEN ok_pc ELSE err_pc)

\* the registry update that follows a driver call
Registrar(t, a, on, next_pc) ==
    /\ actuator_states' = [actuator_states EXCEPT ![a] = on]
    /\ hist' = [hist EXCEPT !.llamada = FALSE]
    /\ Goto(t, next_pc)

\* opening time of the fertilizer valve, in hundredths of a second
TiempoApertura(porcentaje) == porcentaje * max_fertilizer_time

UnchangedBudget ==
    UNCHANGED <<total_daily_water, remaining_daily_water, daily_fertilizer_percentage>>

UnchangedSched == UNCHANGED <<irrigation_schedule, jobs, sync_jobs, hora, season>>

UnchangedSupLocals == UNCHANGED <<sensor_values, nuevo_modo_control, model_loaded>>

\* everything _accionar_actuadores never touches
AccFrame ==
    /\ UnchangedBudget /\ UnchangedSched /\ UnchangedSupLocals
    /\ UNCHANGED <<decision, lock, control_mode, riego>>

----------------------------------------------------------------------------
(* _accionar_actuadores, run by the supervisor or by an irrigation thread *)

\* is_busy as the guard of _accionar_actuadores reads it
OcupadoParaAccionar(busy) == busy

\* lines 372-375: the busy check
AccCheck(t) ==
    /\ pc[t] = "acc_check" /\ lock = Libre
    /\ Goto(t, IF OcupadoParaAccionar(is_busy) THEN AfterAccionar(t) ELSE "acc_bomba")
    /\ UNCHANGED <<is_busy, estado, actuator_states, hist>> /\ AccFrame

\* lines 378-385: pump, driver call
AccBomba(t, F) ==
    /\ pc[t] = "acc_bomba"
    /\ LlamadaDriver(t, "bomba", Flag(decision[t], "activar_bomba"), F,
                     "acc_bomba_st", ErrorAccionar(t))
    /\ UNCHANGED <<is_busy, actuator_states>> /\ AccFrame

\* lines 378-385: pump, registry update under the lock
AccBombaSt(t) ==
    /\ pc[t] = "acc_bomba_st" /\ lock = Libre
    /\ Registrar(t, "bomba", Flag(decision[t], "activar_bomba"), "acc_riego")
    /\ UNCHANGED <<is_busy, estado>> /\ AccFrame

\* lines 388-395: irrigation valve, driver call
AccRiego(t, F) ==
    /\ pc[t] = "acc_riego"
    /\ LlamadaDriver(t, "valvula_riego", Flag(decision[t], "abrir_valvula_riego"), F,
                     "acc_riego_st", ErrorAccionar(t))
    /\ UNCHANGED <<is_busy, actuator_states>> /\ AccFrame

\* lines 388-395: irrigation valve, registry update
AccRiegoSt(t) ==
    /\ pc[t] = "acc_riego_st" /\ lock = Libre
    /\ Registrar(t, "valvula_riego", Flag(decision[t], "abrir_valvula_riego"), "acc_fert")
    /\ UNCHANGED <<is_busy, estado>> /\ AccFrame

\* lines 398-403: fertilizer: start a dosing run, or close the valve
AccFert(t, F) ==
    /\ pc[t] = "acc_fert"
    /\ IF Flag(decision[t], "inyectar_fertilizante")
       THEN Goto(t, "dos_check") /\ UNCHANGED <<estado, hist>>
       ELSE LlamadaDriver(t, "valvula_fertilizante", FALSE, F,
                          "acc_fert_st", ErrorAccionar(t))
    /\ UNCHANGED <<is_busy, actuator_states>> /\ AccFrame

\* lines 404-405
AccFertSt(t) ==
    /\ pc[t] = "acc_fert_st" /\ lock = Libre
    /\ Registrar(t, "valvula_fertilizante", FALSE, "acc_sum")
    /\ UNCHANGED <<is_busy, estado>> /\ AccFrame

\* lines 408-415: alternative supply valve, driver call
AccSum(t, F) ==
    /\ pc[t] = "acc_sum"
    /\ LlamadaDriver(t, "valvula_suministro",
                     Flag(decision[t], "abrir_valvula_suministro"), F,
                     "acc_sum_st", ErrorAccionar(t))
    /\ UNCHANGED <<is_busy, actuator_states>> /\ AccFrame

\* lines 408-415: alternative supply valve, registry update; then return
AccSumSt(t) ==
    /\ pc[t] = "acc_sum_st" /\ lock = Libre
    /\ Registrar(t, "valvula_suministro",
                 Flag(decision[t], "abrir_valvula_suministro"), AfterAccionar(t))
    /\ UNCHANGED <<is_busy, estado>> /\ AccFrame

----------------------------------------------------------------------------
(* _ajustar_dosificacion_fertilizante, called by _accionar_actuadores *)

\* a dosing request that took is_busy for free whatever it read
OcupadoParaDosificarNunca(busy) == FALSE

\* line 430: is_busy as the guard of the dosing run reads it
OcupadoParaDosificar(busy) == busy

\* lines 429-443: check-and-set of is_busy under the lock, then the
\* opening time decides whether the valve is opened at all
DosCheck(t) ==
    /\ pc[t] = "dos_check" /\ lock = Libre
    /\ IF OcupadoParaDosificar(is_busy)
       THEN Goto(t, "acc_sum") /\ UNCHANGED is_busy
       ELSE /\ is_busy' = TRUE
            /\ Goto(t, IF TiempoApertura(Get(decision[t], "porcentaje_fertilizante", 0)) > 0
                       THEN "dos_abrir" ELSE "dos_fin")
    /\ UNCHANGED <<estado, actuator_states, hist>> /\ AccFrame

\* line 447
DosAbrir(t, F) ==
    /\ pc[t] = "dos_abrir"
    /\ LlamadaDriver(t, "valvula_fertilizante", TRUE, F, "dos_abrir_st", "dos_err")
    /\ UNCHANGED <<is_busy, actuator_states>> /\ AccFrame

\* lines 448-449
DosAbrirSt(t) ==
    /\ pc[t] = "dos_abrir_st" /\ lock = Libre
    /\ Registrar(t, "valvula_fertilizante", TRUE, "dos_cerrar")
    /\ UNCHANGED <<is_busy, estado>> /\ AccFrame

\* lines 452-455: after the sleep, close the valve
DosCerrar(t, F) ==
    /\ pc[t] = "dos_cerrar"
    /\ LlamadaDriver(t, "valvula_fertilizante", FALSE, F, "dos_cerrar_st", "dos_err")
    /\ UNCHANGED <<is_busy, actuator_states>> /\ AccFrame

\* lines 456-457
DosCerrarSt(t) ==
    /\ pc[t] = "dos_cerrar_st" /\ lock = Libre
    /\ Registrar(t, "valvula_fertilizante", FALSE, "dos_fin")
    /\ UNCHANGED <<is_busy, estado>> /\ AccFrame

\* lines 463-464
DosFin(t) ==
    /\ pc[t] = "dos_fin" /\ lock = Libre
    /\ is_busy' = FALSE
    /\ Goto(t, "acc_sum")
    /\ UNCHANGED <<estado, actuator_states, hist>> /\ AccFrame

\* lines 466-470: an exception in the dosing run releases is_busy and is
\* raised again; _accionar_actuadores (419-421) raises it to its caller
DosErr(t) ==
    /\ pc[t] = "dos_err" /\ lock = Libre
    /\ is_busy' = FALSE
    /\ Goto(t, ErrorAccionar(t))
    /\ UNCHANGED <<estado, actuator_states, hist>> /\ AccFrame

\* F: the outcomes a pin write may have
Accionar(t, F) ==
    \/ AccCheck(t) \/ AccBomba(t, F) \/ AccBombaSt(t) \/ AccRiego(t, F) \/ AccRiegoSt(t)
    \/ AccFert(t, F) \/ AccFertSt(t) \/ AccSum(t, F) \/ AccSumSt(t)

Dosificar(t, F) ==
    \/ DosCheck(t) \/ DosAbrir(t, F) \/ DosAbrirSt(t)
    \/ DosCerrar(t, F) \/ DosCerrarSt(t) \/ DosFin(t)

\* the pin writes of healthy hardware always return
SinFallos == {TRUE}

\* a pin write may raise
ConFallos == BOOLEAN

----------------------------------------------------------------------------
(* _controlar_riego, the body of an irrigation thread *)

RiegoFrame ==
    /\ UnchangedBudget /\ UnchangedSched /\ UnchangedSupLocals
    /\ UNCHANGED <<lock, control_mode, hist>>

\* volume delivered in dt seconds at flow L/min, in ml (line 564)
VolumenIntervalo(flow, dt) == (flow * 1000 * dt) \div 60

\* lines 539-545: set is_busy, then call _accionar_actuadores
RiegoInicio(r) ==
    /\ pc[r] = "inicio" /\ lock = Libre
    /\ is_busy' = TRUE
    /\ Goto(r, "acc_check")
    /\ UNCHANGED <<estado, actuator_states, decision, riego>> /\ RiegoFrame

\* line 561: the time since the start of the run after one more iteration.
\* Times past the ceiling are all alike to the loop, so those beyond the
\* first are folded onto the first two
Transcurrido(elapsed) ==
    IF elapsed > tiempo_maximo_riego + DeltaTiempo
    THEN elapsed - DeltaTiempo ELSE elapsed + DeltaTiempo

\* the loop condition without the ceiling on the elapsed time
FinDeRiegoSinTecho(elapsed, total_volume, cantidad_agua) ==
    ~(total_volume < cantidad_agua)

\* lines 555 and 572: the loop ends on the allotted volume or past the ceiling
FinDeRiego(elapsed, total_volume, cantidad_agua) ==
    elapsed > tiempo_maximo_riego \/ ~(total_volume < cantidad_agua)

\* lines 555-577: one iteration of the metering loop. With nothing to
\* deliver the loop is not entered. A failed reading is None and the
\* division raises; otherwise the volume is integrated and the loop ends
\* when FinDeRiego says so. After the loop the locals are only logged, so
\* they are dropped on exit
Medir(r) ==
    /\ pc[r] = "medir"
    /\ IF ~(riego[r].total_volume < decision[r].cantidad_agua)
       THEN Goto(r, "fin_bomba") /\ riego' = [riego EXCEPT ![r] = RiegoIdle]
       ELSE \/ Goto(r, "err_bomba") /\ riego' = [riego EXCEPT ![r] = RiegoIdle]
            \/ \E flow_rate \in LecturasFlujo :
                 LET v == riego[r].total_volume + VolumenIntervalo(flow_rate, DeltaTiempo)
                     e == Transcurrido(riego[r].elapsed)
                     fin == FinDeRiego(e, v, decision[r].cantidad_agua)
                 IN  /\ riego' = [riego EXCEPT ![r] = IF fin THEN RiegoIdle
                                        ELSE [total_volume |-> v, elapsed |-> e]]
                     /\ Goto(r, IF fin THEN "fin_bomba" ELSE "medir")
    /\ UNCHANGED <<is_busy, estado, actuator_states, decision>> /\ RiegoFrame

\* line 580
FinBomba(r) ==
    /\ pc[r] = "fin_bomba"
    /\ estado' = desactivar(estado, "bomba")
    /\ Goto(r, "fin_valvula")
    /\ UNCHANGED <<is_busy, actuator_states, decision, riego>> /\ RiegoFrame

\* line 581
FinValvula(r) ==
    /\ pc[r] = "fin_valvula"
    /\ estado' = desactivar(estado, "valvula_riego")
    /\ Goto(r, "fin_estados")
    /\ UNCHANGED <<is_busy, actuator_states, decision, riego>> /\ RiegoFrame

\* lines 582-584
FinEstados(r) ==
    /\ pc[r] = "fin_estados" /\ lock = Libre
    /\ actuator_states' = [actuator_states EXCEPT !["bomba"] = FALSE,
                                                  !["valvula_riego"] = FALSE]
    /\ Goto(r, "fin_busy")
    /\ UNCHANGED <<is_busy, estado, decision, riego>> /\ RiegoFrame

\* lines 589-592: register the event, clear is_busy; the thread ends
FinBusy(r) ==
    /\ pc[r] = "fin_busy" /\ lock = Libre
    /\ is_busy' = FALSE
    /\ Goto(r, "idle")
    /\ decision' = [decision EXCEPT ![r] = EmptyDict]
    /\ riego' = [riego EXCEPT ![r] = RiegoIdle]
    /\ UNCHANGED <<estado, actuator_states>> /\ RiegoFrame

\* line 597 (except branch)
ErrBomba(r) ==
    /\ pc[r] = "err_bomba"
    /\ estado' = desactivar(estado, "bomba")
    /\ Goto(r, "err_valvula")
    /\ UNCHANGED <<is_busy, actuator_states, decision, riego>> /\ RiegoFrame

\* line 598
ErrValvula(r) ==
    /\ pc[r] = "err_valvula"
    /\ estado' = desactivar(estado, "valvula_riego")
    /\ Goto(r, "err_estados")
    /\ UNCHANGED <<is_busy, actuator_states, decision, riego>> /\ RiegoFrame

\* lines 599-602; the thread ends
ErrEstados(r) ==
    /\ pc[r] = "err_estados" /\ lock = Libre
    /\ actuator_states' = [actuator_states EXCEPT !["bomba"] = FALSE,
                                                  !["valvula_riego"] = FALSE]
    /\ is_busy' = FALSE
    /\ Goto(r, "idle")
    /\ decision' = [decision EXCEPT ![r] = EmptyDict]
    /\ riego' = [riego EXCEPT ![r] = RiegoIdle]
    /\ UNCHANGED estado /\ RiegoFrame

ControlarRiego(r) ==
    \/ RiegoInicio(r) \/ Medir(r)
    \/ FinBomba(r) \/ FinValvula(r) \/ FinEstados(r) \/ FinBusy(r)
    \/ ErrBomba(r) \/ ErrValvula(r) \/ ErrEstados(r)

----------------------------------------------------------------------------
(* The daily budget *)

\* the share of one event without the division by the number of events
WaterPerEventSinDividir(total, remaining, num_events) ==
    IF remaining < total THEN remaining ELSE total

\* lines 511-516: the share of one event, at most what remains
WaterPerEvent(total, remaining, num_events) ==
    LET water_per_event == total \div num_events
    IN  IF remaining < water_per_event THEN remaining ELSE water_per_event

\* the no-op test with < in place of <=
SinAguaRestanteEstricto(remaining) == remaining < 0

\* line 506: the event is a no-op when nothing remains
SinAguaRestante(remaining) == remaining <= 0

\* the budget with the remaining volume copied before the total is replaced
PresupuestarDesfasado(d, total_anterior) ==
    [total     |-> Get(d, "cantidad_agua", 0),
     remaining |-> total_anterior,
     fertilizer |-> <<Get(d, "porcentaje_fertilizante", 0)>>]

\* a re-plan that leaves the fertilizer percentage as it was at construction
PresupuestarSinFertilizante(d, total_anterior) ==
    [total     |-> Get(d, "cantidad_agua", 0),
     remaining |-> Get(d, "cantidad_agua", 0),
     fertilizer |-> Unassigned]

\* lines 346-350: the budget a model decision establishes
Presupuestar(d, total_anterior) ==
    [total     |-> Get(d, "cantidad_agua", 0),
     remaining |-> Get(d, "cantidad_agua", 0),
     fertilizer |-> <<Get(d, "porcentaje_fertilizante", 0)>>]

\* lines 522-529: the decision an event hands to its irrigation thread
DecisionEvento(water_per_event, fertilizer) ==
    [activar_bomba |-> TRUE, abrir_valvula_riego |-> TRUE,
     inyectar_fertilizante |-> fertilizer[1] > 0,
     abrir_valvula_suministro |-> FALSE,
     cantidad_agua |-> water_per_event,
     porcentaje_fertilizante |-> fertilizer[1]]

----------------------------------------------------------------------------
(* The supervisor loop, ControladorSistemaRiego.iniciar *)

SupFrame == UNCHANGED <<is_busy, estado, actuator_states, riego>>

\* a cycle that applies every decision, the empty one too
TrasDecidirAplica(d) == "acc_check"

\* a cycle that goes from the decision straight to the publication
TrasDecidirPublica(d) == "publicar"

\* lines 135-136: a non-empty decision is applied, an empty one is not
TrasDecidir(d) == IF DOMAIN d # {} THEN "acc_check" ELSE "anomalias"

\* schedule.run_pending() runs a due job: _iniciar_evento_riego (lines
\* 505-532). The job is rescheduled for the next day. Reading
\* daily_fertilizer_percentage before it was ever assigned raises (line
\* 525), after the deduction: the exception ends the supervisor's cycle
IniciarEventoRiego ==
    /\ pc[Sup] = "run_pending" /\ lock = Libre
    /\ \E j \in jobs :
         /\ j.due
         /\ jobs' = (jobs \ {j}) \cup {[j EXCEPT !.due = FALSE]}
         /\ IF SinAguaRestante(remaining_daily_water)
            THEN /\ hist' = [hist EXCEPT !.evento = "noop", !.k = Contar(hist.k)]
                 /\ UNCHANGED <<pc, decision, riego, remaining_daily_water>>
            ELSE LET w == WaterPerEvent(total_daily_water, remaining_daily_water,
                                        Len(irrigation_schedule))
                 IN  /\ remaining_daily_water' = remaining_daily_water - w
                     /\ hist' = [hist EXCEPT !.consumido = TRUE, !.k = Contar(hist.k),
                                              !.evento = "riego"]
                     /\ IF daily_fertilizer_percentage = Unassigned
                        THEN Goto(Sup, "cooldown") /\ UNCHANGED <<decision, riego>>
                        ELSE \E r \in Riego :
                               /\ pc[r] = "idle"
                               /\ decision' = [decision EXCEPT
                                      ![r] = DecisionEvento(w, daily_fertilizer_percentage)]
                               /\ riego' = [riego EXCEPT ![r] = RiegoIdle]
                               /\ pc' = [pc EXCEPT ![r] = "inicio"]
    /\ UNCHANGED <<lock, is_busy, control_mode, estado, actuator_states,
                   total_daily_water, daily_fertilizer_percentage,
                   irrigation_schedule, sync_jobs, hora, season>>
    /\ UnchangedSupLocals

\* line 122: no job is due any more, run_pending returns
RunPendingDone ==
    /\ pc[Sup] = "run_pending"
    /\ \A j \in jobs : ~j.due
    /\ Goto(Sup, "leer")
    /\ hist' = [hist EXCEPT !.evento = "none"]
    /\ SupFrame /\ UnchangedBudget /\ UnchangedSched /\ UnchangedSupLocals
    /\ UNCHANGED <<decision, lock, control_mode>>

\* _leer_sensores (lines 163-214): a snapshot out of M, or an exception
\* that ends the cycle
LeerSensores(M) ==
    /\ pc[Sup] = "leer"
    /\ \/ \E m \in M :
            /\ sensor_values' = Put(m, "season", season)
            /\ Goto(Sup, "obtener_modo")
       \/ Goto(Sup, "cooldown") /\ UNCHANGED sensor_values
    /\ SupFrame /\ UnchangedBudget /\ UnchangedSched
    /\ UNCHANGED <<decision, lock, control_mode, nuevo_modo_control, model_loaded, hist>>

\* line 312: ask the operator interface for the mode
ObtenerModo ==
    /\ pc[Sup] = "obtener_modo"
    /\ nuevo_modo_control' \in Modos
    /\ Goto(Sup, "cambiar_modo")
    /\ SupFrame /\ UnchangedBudget /\ UnchangedSched
    /\ UNCHANGED <<decision, lock, control_mode, sensor_values, model_loaded, hist>>

\* a mode switch that does not look at is_busy
PuedeCambiarModoSiempre(busy) == TRUE

\* may the mode be switched now (line 318)
PuedeCambiarModo(busy) == ~busy

\* lines 316-324: switch the mode unless busy, then branch on the mode.
\* The requested mode is not used again
CambiarModo ==
    /\ pc[Sup] = "cambiar_modo" /\ lock = Libre
    /\ control_mode' = IF nuevo_modo_control # control_mode /\ PuedeCambiarModo(is_busy)
                       THEN nuevo_modo_control ELSE control_mode
    /\ nuevo_modo_control' = None
    /\ Goto(Sup, IF control_mode' = "manual" THEN "manual" ELSE "auto")
    /\ SupFrame /\ UnchangedBudget /\ UnchangedSched
    /\ UNCHANGED <<decision, lock, sensor_values, model_loaded, hist>>

\* a manual branch that asks the operator whatever is_busy says
PuedeRecibirComandosSiempre(busy) == TRUE

\* line 328: the operator's command is fetched only if not busy
PuedeRecibirComandos(busy) == ~busy

\* lines 327-332: take the lock; if busy the decision is empty
ManualCheck ==
    /\ pc[Sup] = "manual" /\ lock = Libre
    /\ IF PuedeRecibirComandos(is_busy)
       THEN lock' = Sup /\ Goto(Sup, "recibir") /\ UNCHANGED decision
       ELSE /\ decision' = [decision EXCEPT ![Sup] = EmptyDict]
            /\ Goto(Sup, TrasDecidir(EmptyDict)) /\ UNCHANGED lock
    /\ SupFrame /\ UnchangedBudget /\ UnchangedSched /\ UnchangedSupLocals
    /\ UNCHANGED <<control_mode, hist>>

\* a call of gui.recibir_comandos() after which the lock stays taken
RecibirComandosSinSoltar(C) ==
    /\ pc[Sup] = "recibir" /\ lock = Sup
    /\ \E c \in C :
         /\ decision' = [decision EXCEPT ![Sup] = c]
         /\ Goto(Sup, TrasDecidir(c))
    /\ UNCHANGED lock
    /\ SupFrame /\ UnchangedBudget /\ UnchangedSched /\ UnchangedSupLocals
    /\ UNCHANGED <<control_mode, hist>>

\* line 329: gui.recibir_comandos(), called with the lock held, gives a
\* command out of C
RecibirComandos(C) ==
    /\ pc[Sup] = "recibir" /\ lock = Sup
    /\ \E c \in C :
         /\ decision' = [decision EXCEPT ![Sup] = c]
         /\ Goto(Sup, TrasDecidir(c))
    /\ lock' = Libre
    /\ SupFrame /\ UnchangedBudget /\ UnchangedSched /\ UnchangedSupLocals
    /\ UNCHANGED <<control_mode, hist>>

\* lines 335-342: thresholds, then the emergency rules or the model, whose
\* prediction is out of P
DecidirAutomatico(P) ==
    /\ pc[Sup] = "auto"
    /\ IF ~_verificar_umbrales(sensor_values, season)
       THEN LET d == _acciones_emergencia(sensor_values)
            IN  /\ decision' = [decision EXCEPT ![Sup] = d]
                /\ Goto(Sup, TrasDecidir(d))
            /\ UNCHANGED hist
       ELSE \E pred \in P :
            /\ decision' = [decision EXCEPT
                               ![Sup] = evaluar(sensor_values, model_loaded, pred)]
            /\ hist' = [hist EXCEPT !.pred = IF model_loaded THEN {pred} ELSE {}]
            /\ Goto(Sup, "presupuesto")
    /\ SupFrame /\ UnchangedBudget /\ UnchangedSched /\ UnchangedSupLocals
    /\ UNCHANGED <<lock, control_mode>>

\* lines 345-350: the model decision re-establishes the budget
ActualizarPresupuesto ==
    /\ pc[Sup] = "presupuesto" /\ lock = Libre
    /\ LET b == Presupuestar(decision[Sup], total_daily_water)
       IN  /\ total_daily_water' = b.total
           /\ remaining_daily_water' = b.remaining
           /\ daily_fertilizer_percentage' = b.fertilizer
    /\ hist' = [hist EXCEPT !.k = 0, !.pred = {}]
    /\ Goto(Sup, "programar")
    /\ SupFrame /\ UnchangedSched /\ UnchangedSupLocals
    /\ UNCHANGED <<decision, lock, control_mode>>

\* lines 353-356: re-install the triggers and empty the decision
ProgramarRiegoDiario ==
    /\ pc[Sup] = "programar"
    /\ Cardinality(jobs) + 2 <= MaxJobs
    /\ LET p == _programar_riego_diario(jobs, irrigation_schedule, season)
       IN  jobs' = p.jobs /\ irrigation_schedule' = p.ids
    /\ decision' = [decision EXCEPT ![Sup] = EmptyDict]
    /\ Goto(Sup, TrasDecidir(EmptyDict))
    /\ SupFrame /\ UnchangedBudget /\ UnchangedSupLocals
    /\ UNCHANGED <<lock, control_mode, sync_jobs, hora, season, hist>>

\* an anomaly check that switches every actuator off when it reports
VerificarAnomaliasApaga ==
    /\ pc[Sup] = "anomalias" /\ lock = Libre
    /\ hist' = [hist EXCEPT !.anomalia = _verificar_anomalias(sensor_values,
                                                              actuator_states)]
    /\ estado' = IF hist'.anomalia THEN [a \in Actuators |-> FALSE] ELSE estado
    /\ actuator_states' = estado'
    /\ Goto(Sup, "publicar")
    /\ UnchangedBudget /\ UnchangedSched /\ UnchangedSupLocals
    /\ UNCHANGED <<decision, lock, control_mode, is_busy, riego>>

\* line 139: _verificar_anomalias
VerificarAnomalias ==
    /\ pc[Sup] = "anomalias" /\ lock = Libre
    /\ hist' = [hist EXCEPT !.anomalia = _verificar_anomalias(sensor_values,
                                                              actuator_states)]
    /\ Goto(Sup, "publicar")
    /\ SupFrame /\ UnchangedBudget /\ UnchangedSched /\ UnchangedSupLocals
    /\ UNCHANGED <<decision, lock, control_mode>>

\* lines 142-145: publish to the operator interface, check the storage;
\* the snapshot and the decision of the cycle are not used again
Publicar ==
    /\ pc[Sup] = "publicar"
    /\ Goto(Sup, "dormir")
    /\ decision' = [decision EXCEPT ![Sup] = EmptyDict]
    /\ sensor_values' = EmptyDict
    /\ hist' = [hist EXCEPT !.anomalia = FALSE]
    /\ SupFrame /\ UnchangedBudget /\ UnchangedSched
    /\ UNCHANGED <<lock, control_mode, nuevo_modo_control, model_loaded>>

\* line 148: sleep, then the next cycle
Dormir ==
    /\ pc[Sup] = "dormir"
    /\ Goto(Sup, "run_pending")
    /\ SupFrame /\ UnchangedBudget /\ UnchangedSched /\ UnchangedSupLocals
    /\ UNCHANGED <<decision, lock, control_mode, hist>>

\* a supervisor that leaves its loop on any exception
CooldownTermina ==
    /\ pc[Sup] = "cooldown"
    /\ Goto(Sup, "terminado")
    /\ SupFrame /\ UnchangedBudget /\ UnchangedSched /\ UnchangedSupLocals
    /\ UNCHANGED <<decision, lock, control_mode, hist>>

\* lines 153-155: an exception in the cycle: cooldown, then the next cycle
Cooldown ==
    /\ pc[Sup] = "cooldown"
    /\ Goto(Sup, "run_pending")
    /\ decision' = [decision EXCEPT ![Sup] = EmptyDict]
    /\ sensor_values' = EmptyDict
    /\ SupFrame /\ UnchangedBudget /\ UnchangedSched
    /\ UNCHANGED <<nuevo_modo_control, model_loaded, lock, control_mode, hist>>

\* schedule.run_pending() runs a job that calls
\* _programar_sincronizacion_semanal (lines 699-710): the weekly one of line
\* 104, or an hourly retry. Under the lock, if is_busy is clear one more
\* weekly job for _sincronizar_con_nube is put into the scheduler, otherwise
\* one more hourly job for _programar_sincronizacion_semanal; no job is
\* cancelled. The clock of the model does not count weeks: the job is due
\* at some calls of run_pending
ProgramarSincronizacionSemanal ==
    /\ pc[Sup] = "run_pending" /\ lock = Libre
    /\ IF ~is_busy
       THEN /\ sync_jobs.sincronizar < MaxSync
            /\ sync_jobs' = [sync_jobs EXCEPT !.sincronizar = @ + 1]
       ELSE /\ sync_jobs.reintento < MaxSync
            /\ sync_jobs' = [sync_jobs EXCEPT !.reintento = @ + 1]
    /\ SupFrame /\ UnchangedBudget /\ UnchangedSupLocals
    /\ UNCHANGED <<pc, decision, lock, control_mode, hist,
                   irrigation_schedule, jobs, hora, season>>

\* schedule.run_pending() runs the weekly job _sincronizar_con_nube (lines
\* 712-721) in the supervisor's own thread: if is_busy is set it returns,
\* otherwise the synchronisation starts
IniciarSincronizacion ==
    /\ pc[Sup] = "run_pending" /\ lock = Libre
    /\ sync_jobs.sincronizar > 0
    /\ ~is_busy
    /\ Goto(Sup, "sincronizando")
    /\ SupFrame /\ UnchangedBudget /\ UnchangedSched /\ UnchangedSupLocals
    /\ UNCHANGED <<decision, lock, control_mode, hist>>

\* lines 724-734: cloud_sync.sincronizar_con_nube() returns or raises; after
\* a success cargar_modelo leaves a model loaded or none; then the job
\* returns to run_pending
Sincronizar ==
    /\ pc[Sup] = "sincronizando"
    /\ \E exito \in BOOLEAN :
          IF exito THEN model_loaded' \in BOOLEAN ELSE UNCHANGED model_loaded
    /\ Goto(Sup, "run_pending")
    /\ SupFrame /\ UnchangedBudget /\ UnchangedSched
    /\ UNCHANGED <<sensor_values, nuevo_modo_control, decision, lock, control_mode, hist>>

\* the steps of the cycle in which an exception other than a sensor or
\* a driver failure can be raised: the decision (lines 362-364), the
\* anomaly check (261-263), the publication (142-145)
PcConError == {"auto", "anomalias", "publicar"}

\* lines 153-155: such an exception reaches the except branch of iniciar
ErrorEnCiclo ==
    /\ pc[Sup] \in PcConError /\ lock = Libre
    /\ Goto(Sup, "cooldown")
    /\ SupFrame /\ UnchangedBudget /\ UnchangedSched /\ UnchangedSupLocals
    /\ UNCHANGED <<decision, lock, control_mode, hist>>

----------------------------------------------------------------------------
(* Time *)

\* the hours of today, after the current one, that some job is set for
HorasPendientes(js, h) ==
    {i \in (h + 1)..Len(HorasDelDia) : \E j \in js : j.at = HorasDelDia[i]}

Minimo(S) == CHOOSE x \in S : \A y \in S : x <= y

\* the clock reaches the next hour some job is set for: the jobs set for
\* that hour become due
Tick ==
    /\ HorasPendientes(jobs, hora) # {}
    /\ hora' = Minimo(HorasPendientes(jobs, hora))
    /\ jobs' = {IF j.at = HorasDelDia[hora'] THEN [j EXCEPT !.due = TRUE] ELSE j : j \in jobs}
    /\ UnchangedBudget /\ UnchangedSupLocals
    /\ UNCHANGED <<pc, decision, lock, is_busy, control_mode, estado,
                   actuator_states, irrigation_schedule, sync_jobs, riego, season, hist>>

\* midnight, once no job is left for today: a new day starts; on the
\* first day of some months the season changes (S is the set of seasons
\* the new day can be in)
Medianoche(S) ==
    /\ HorasPendientes(jobs, hora) = {}
    /\ hora' = 1
    /\ season' \in S
    /\ hist' = [hist EXCEPT !.consumido = FALSE]
    /\ UnchangedBudget /\ UnchangedSupLocals
    /\ UNCHANGED <<pc, decision, lock, is_busy, control_mode, estado,
                   actuator_states, irrigation_schedule, jobs, sync_jobs, riego>>

----------------------------------------------------------------------------
(* Specifications *)

\* the supervisor cycle, with the snapshots M, the operator commands C and
\* the model predictions P the environment can give
\* the steps of a cycle of iniciar other than firing a due trigger
Ciclo(M, C, P) ==
    \/ RunPendingDone \/ LeerSensores(M)
    \/ ObtenerModo \/ CambiarModo \/ ManualCheck \/ RecibirComandos(C)
    \/ DecidirAutomatico(P) \/ ActualizarPresupuesto \/ ProgramarRiegoDiario
    \/ VerificarAnomalias \/ Publicar \/ Dormir \/ Cooldown

Supervisor(M, C, P) == IniciarEventoRiego \/ Ciclo(M, C, P)

\* one day of the controller with every input: the supervisor and the
\* irrigation thread interleave in every order
Next ==
    \/ Supervisor(Muestras, ComandosManuales, Predicciones)
    \/ \E t \in Threads : Accionar(t, SinFallos)
    \/ \E t \in Threads : Dosificar(t, SinFallos)
    \/ \E r \in Riego : ControlarRiego(r)
    \/ Tick

Spec == Init /\ [][Next]_vars

\* the calendar: days and seasons pass, every snapshot is inside the bands
\* and the operator sends no command, so the supervisor never has a
\* decision to apply and an irrigation thread, busy from its first step,
\* never gets past the check of _accionar_actuadores
NextPlan ==
    \/ Supervisor({MuestraNormal}, {EmptyDict}, Predicciones)
    \/ \E r \in Riego : AccCheck(r)
    \/ \E r \in Riego : ControlarRiego(r)
    \/ Tick
    \/ Medianoche({season, NextSeason(season)})

SpecPlan == Init /\ [][NextPlan]_vars

\* scheduling: a thread that is started keeps running, and gets the lock
\* if the lock is free again and again; gui.recibir_comandos returns
\* (its requests time out), so the supervisor releases the lock it holds
Fairness ==
    /\ \A r \in Riego : /\ SF_vars(ControlarRiego(r))
                        /\ SF_vars(Accionar(r, SinFallos))
                        /\ SF_vars(Dosificar(r, SinFallos))
    /\ WF_vars(RecibirComandos(ComandosManuales))

\* the controller started in winter, when a day has one irrigation event
InitInvierno == Init /\ season = "winter"

\* a winter day under fair scheduling
SpecFair == InitInvierno /\ [][Next]_vars /\ Fairness

----------------------------------------------------------------------------
(* Properties *)

\* the automatic branch of _tomar_decision on its own: the supervisor has
\* a snapshot out of LecturasBorde and is about to decide
InitArbitro ==
    /\ pc = [t \in Threads |-> IF t = Sup THEN "auto" ELSE "idle"]
    /\ decision = [t \in Threads |-> EmptyDict]
    /\ lock = Libre
    /\ is_busy = FALSE
    /\ control_mode = "automatic"
    /\ estado = [a \in Actuators |-> FALSE]
    /\ actuator_states = [a \in Actuators |-> FALSE]
    /\ total_daily_water = 0
    /\ remaining_daily_water = 0
    /\ daily_fertilizer_percentage = Unassigned
    /\ season \in Seasons
    /\ hora = 1
    /\ LET p == _programar_riego_diario({}, <<>>, season)
       IN  jobs = p.jobs /\ irrigation_schedule = p.ids
    /\ sync_jobs = SinTareasDeNube
    /\ sensor_values \in {Put(m, "season", season) : m \in LecturasBorde(season)}
    /\ nuevo_modo_control = None
    /\ model_loaded \in BOOLEAN
    /\ riego = [r \in Riego |-> RiegoIdle]
    /\ hist = HistInit

NextArbitro == DecidirAutomatico(Predicciones)

\* the same branch with predictions of either sign
NextModelo == DecidirAutomatico(PrediccionesBorde)

SpecModelo == InitArbitro /\ [][NextModelo]_vars

SpecArbitro == InitArbitro /\ [][NextArbitro]_vars

\* _verificar_anomalias on its own: the supervisor is about to check a
\* snapshot whose flow is out of FlujosBorde, or has no flow at all,
\* against any registry
InitAnomalias ==
    /\ pc = [t \in Threads |-> IF t = Sup THEN "anomalias" ELSE "idle"]
    /\ decision = [t \in Threads |-> EmptyDict]
    /\ lock = Libre
    /\ is_busy = FALSE
    /\ control_mode = "manual"
    /\ estado \in [Actuators -> BOOLEAN]
    /\ actuator_states = estado
    /\ total_daily_water = 0
    /\ remaining_daily_water = 0
    /\ daily_fertilizer_percentage = Unassigned
    /\ season = "summer"
    /\ hora = 1
    /\ LET p == _programar_riego_diario({}, <<>>, season)
       IN  jobs = p.jobs /\ irrigation_schedule = p.ids
    /\ sync_jobs = SinTareasDeNube
    /\ sensor_values \in
          {Put([MuestraNormal EXCEPT !.flow_rate = f], "season", season) : f \in FlujosBorde}
              \cup {[humidity |-> 450, season |-> season]}
    /\ nuevo_modo_control = None
    /\ model_loaded = FALSE
    /\ riego = [r \in Riego |-> RiegoIdle]
    /\ hist = HistInit

NextAnomalias == VerificarAnomalias

SpecAnomalias == InitAnomalias /\ [][NextAnomalias]_vars

\* the supervisor alone, no trigger due, with every error a cycle can
\* meet: a failed acquisition, an exception in the decision, the anomaly
\* check or the publication, a failing pin write
NextCiclo ==
    \/ Ciclo(Muestras, ComandosManuales, Predicciones)
    \/ Accionar(Sup, ConFallos)
    \/ Dosificar(Sup, ConFallos)
    \/ DosErr(Sup)
    \/ ErrorEnCiclo

\* every step of the cycle returns: the calls have timeouts, the sleeps end
SpecCiclo == Init /\ [][NextCiclo]_vars /\ WF_vars(NextCiclo)

\* the supervisor alone with the weekly cloud synchronisation due now and
\* then, in-band readings and no manual command
NextNube ==
    \/ Ciclo({MuestraNormal}, {EmptyDict}, Predicciones)
    \/ ProgramarSincronizacionSemanal
    \/ IniciarSincronizacion
    \/ Sincronizar

SpecNube == Init /\ [][NextNube]_vars

\* a day of the supervisor and the irrigation thread with in-band readings,
\* in which the jobs that plan the cloud synchronisation are due now and
\* then, also while a run is busy
NextTrabajos ==
    \/ Supervisor({MuestraNormal}, {EmptyDict}, Predicciones)
    \/ \E r \in Riego : AccCheck(r)
    \/ \E r \in Riego : ControlarRiego(r)
    \/ Tick
    \/ ProgramarSincronizacionSemanal

SpecTrabajos == Init /\ [][NextTrabajos]_vars

\* _accionar_actuadores on its own: the supervisor is about to apply a
\* command out of Comandos, in manual mode, with the actuators in any state
\* the registry agrees with, nothing else running
InitAplicar ==
    /\ pc = [t \in Threads |-> IF t = Sup THEN "acc_check" ELSE "idle"]
    /\ decision \in {[t \in Threads |-> IF t = Sup THEN c ELSE EmptyDict] : c \in Comandos}
    /\ lock = Libre
    /\ is_busy = FALSE
    /\ control_mode = "manual"
    /\ estado \in [Actuators -> BOOLEAN]
    /\ actuator_states = estado
    /\ total_daily_water = 0
    /\ remaining_daily_water = 0
    /\ daily_fertilizer_percentage = Unassigned
    /\ season = "summer"
    /\ hora = 1
    /\ LET p == _programar_riego_diario({}, <<>>, season)
       IN  jobs = p.jobs /\ irrigation_schedule = p.ids
    /\ sync_jobs = SinTareasDeNube
    /\ sensor_values = Put(MuestraNormal, "season", season)
    /\ nuevo_modo_control = None
    /\ model_loaded = FALSE
    /\ riego = [r \in Riego |-> RiegoIdle]
    /\ hist = HistInit

\* the command just applied is applied once more
Reaplicar ==
    /\ pc[Sup] = "anomalias" /\ hist.vez = 1
    /\ hist' = [hist EXCEPT !.vez = 2]
    /\ Goto(Sup, "acc_check")
    /\ SupFrame /\ UnchangedBudget /\ UnchangedSched /\ UnchangedSupLocals
    /\ UNCHANGED <<decision, lock, control_mode>>

\* a command applied twice in a row by one thread, on healthy hardware
NextAplicar ==
    \/ Accionar(Sup, SinFallos)
    \/ Dosificar(Sup, SinFallos)
    \/ Reaplicar

SpecAplicar == InitAplicar /\ [][NextAplicar]_vars

\* the same on hardware whose pin writes may raise
NextAplicarFallos ==
    \/ Accionar(Sup, ConFallos)
    \/ Dosificar(Sup, ConFallos)
    \/ DosErr(Sup)
    \/ Reaplicar

SpecAplicarFallos == InitAplicar /\ [][NextAplicarFallos]_vars

\* thread t is inside a dosing run: is_busy set at lines 429-433 and not
\* yet cleared at lines 463-464
EnDosificacion(t) ==
    pc[t] \in {"dos_abrir", "dos_abrir_st", "dos_cerrar", "dos_cerrar_st", "dos_fin",
               "dos_err"}

\* thread r is inside an irrigation run: is_busy set at lines 539-540 and
\* not yet cleared at lines 591-592 or 599-602
EnRiego(r) == pc[r] \notin {"idle", "inicio"}

\* the step of an irrigation thread that ends its run
FinDeEjecucion(r) == pc[r] # "idle" /\ pc'[r] = "idle"

\* the step of run_pending that fires an irrigation event
EventoDisparado == pc[Sup] = "run_pending" /\ jobs' # jobs /\ hora' = hora

\* C1: at most one critical action is in progress: an irrigation run never
\* overlaps a dosing run or an irrigation run of another thread.
C1_UnaAccionCritica ==
    \A r \in Riego : \A t \in Threads \ {r} :
        EnRiego(r) => ~EnDosificacion(t) /\ (t \in Riego => ~EnRiego(t))

\* C2: from the end of the apply step of a run until its finalisation the
\* pump and the irrigation valve are on, in the drivers and in the registry.
C2_BombaYValvulaEnRiego ==
    \A r \in Riego :
        pc[r] = "medir" =>
            /\ estado["bomba"] /\ estado["valvula_riego"]
            /\ actuator_states["bomba"] /\ actuator_states["valvula_riego"]

\* C3: when an irrigation run ends, by volume, by ceiling or by error, the
\* pump and the irrigation valve are off in the drivers and in the registry
\* and is_busy is false.
C3_ApagadoAlTerminar ==
    [][\A r \in Riego :
         FinDeEjecucion(r) =>
             /\ ~estado'["bomba"] /\ ~estado'["valvula_riego"]
             /\ ~actuator_states'["bomba"] /\ ~actuator_states'["valvula_riego"]
             /\ ~is_busy']_vars

\* C4: every started irrigation run terminates: the thread ends and the
\* is_busy it set is cleared.
C4_RiegoTermina ==
    \A r \in Riego : EnRiego(r) ~> (pc[r] = "idle" /\ ~is_busy)

\* C4 case: a run that has delivered less than its allotment and whose
\* next iteration passes the ceiling
C4_Witness ==
    \E r \in Riego :
        /\ pc[r] = "medir"
        /\ riego[r].total_volume < decision[r].cantidad_agua
        /\ riego[r].elapsed + DeltaTiempo > tiempo_maximo_riego

\* C5: 0 <= remaining_daily_water <= total_daily_water in every state.
C5_PresupuestoAcotado ==
    0 <= remaining_daily_water /\ remaining_daily_water <= total_daily_water

\* C5 case: an event has deducted its share and part of the budget is left
C5_Witness ==
    /\ hist.consumido
    /\ 0 < remaining_daily_water /\ remaining_daily_water < total_daily_water

\* C6: once an event has deducted water today, no later step of the same
\* day raises remaining_daily_water.
C6_NoAumentaEnElDia ==
    [][hist.consumido /\ hist'.consumido =>
           remaining_daily_water' <= remaining_daily_water]_vars

\* C7: with budget T > 0 over N events and no re-plan in between, the k-th
\* firing (k <= N) starts a run allotted T/N and leaves T - k*(T/N), which
\* is 0 after the N-th; a later firing starts nothing and leaves 0.
C7_RepartoPorEvento ==
    [][EventoDisparado /\ total_daily_water > 0 =>
           LET N == Len(irrigation_schedule)
               T == total_daily_water
           IN  IF hist.k < N
               THEN /\ \E r \in Riego : /\ pc[r] = "idle" /\ pc'[r] = "inicio"
                                        /\ decision'[r].cantidad_agua = T \div N
                    /\ remaining_daily_water' = T - (hist.k + 1) * (T \div N)
                    /\ hist.k + 1 = N => remaining_daily_water' = 0
               ELSE /\ pc' = pc /\ decision' = decision
                    /\ remaining_daily_water = 0 /\ remaining_daily_water' = 0]_vars

\* C7 case: the (N+1)-th firing since the budget was established has
\* happened and did nothing
C7_Witness ==
    /\ total_daily_water > 0
    /\ hist.k = Len(irrigation_schedule) + 1
    /\ hist.evento = "noop"

\* C8: an event that fires with remaining_daily_water <= 0 changes nothing:
\* no run is started, is_busy, the registry, the drivers and the budget
\* stay as they are.
C8_EventoSinAgua ==
    [][EventoDisparado /\ remaining_daily_water <= 0 =>
           UNCHANGED <<pc, decision, riego, is_busy, actuator_states, estado,
                       total_daily_water, remaining_daily_water,
                       daily_fertilizer_percentage>>]_vars

\* C8 case: an event has fired with nothing left of the budget
C8_Witness == hist.evento = "noop" /\ remaining_daily_water = 0

\* C9: a call of _programar_riego_diario leaves exactly the triggers of
\* the current season installed, 1 in winter and 2 otherwise, and the
\* schedule list holds exactly these jobs.
C9_DisparadoresDeLaEstacion ==
    [][pc[Sup] = "programar" /\ pc'[Sup] # "programar" =>
           LET times == IrrigationTimes(season)
           IN  /\ {j.at : j \in jobs'} = {times[n] : n \in 1..Len(times)}
               /\ Cardinality(jobs') = (IF season = "winter" THEN 1 ELSE 2)
               /\ {j.id : j \in jobs'} =
                      {irrigation_schedule'[n] : n \in 1..Len(irrigation_schedule')}
               /\ Len(irrigation_schedule') = Cardinality(jobs')]_vars

\* C9 case: a re-plan has run in winter (a budget is established) and one
\* trigger is installed
C9_Witness ==
    /\ season = "winter" /\ total_daily_water > 0
    /\ Cardinality(jobs) = 1 /\ pc[Sup] = "anomalias"

\* C10: control_mode changes only in the supervisor's mode step, with
\* is_busy false, and becomes the mode the operator interface reported in
\* that cycle; a switch asked for while busy is dropped.
C10_CambioDeModo ==
    [][control_mode' # control_mode =>
           /\ pc[Sup] = "cambiar_modo"
           /\ ~is_busy
           /\ control_mode' = nuevo_modo_control]_vars

\* C10 case: the supervisor has switched to manual and, in a later cycle,
\* the operator asks for automatic while is_busy is set
C10_Witness ==
    /\ pc[Sup] = "cambiar_modo" /\ is_busy
    /\ control_mode = "manual" /\ nuevo_modo_control = "automatic"

\* C11: a dosing request that reads is_busy = TRUE returns without touching
\* the fertilizer valve or is_busy; one that reads FALSE sets it in the same
\* step as the read and goes on, so the competitor that checks next is
\* refused.
C11_DosificacionExclusiva ==
    [][\A t \in Threads :
          pc[t] = "dos_check" /\ pc'[t] # "dos_check" =>
              IF is_busy
              THEN /\ pc'[t] = "acc_sum"
                   /\ is_busy' /\ estado' = estado /\ actuator_states' = actuator_states
              ELSE is_busy' /\ EnDosificacion(t)'
      ]_vars

\* two requests compete: one is inside its run, the other reads is_busy
C11_Witness ==
    \E t \in Threads : \E u \in Threads \ {t} :
        pc[t] = "dos_check" /\ is_busy /\ EnDosificacion(u)

\* the pcs at which a thread inside _accionar_actuadores calls a driver
PcDriver == {"acc_bomba", "acc_riego", "acc_fert", "acc_sum", "dos_abrir", "dos_cerrar"}

\* thread t makes a driver call of _accionar_actuadores in this step
LlamaDriver(t) == pc[t] \in PcDriver /\ pc'[t] # pc[t] /\ pc'[t] # "dos_check"

\* C12: the supervisor's _accionar_actuadores makes no driver call while an
\* irrigation or dosing run of another thread holds is_busy.
C12_SupervisorNoActuaOcupado ==
    [][LlamaDriver(Sup) => \A r \in Riego : ~EnRiego(r)]_vars

\* the pcs of a thread that has made a driver call and has not yet written
\* the registry entry that goes with it
PcAMedias == {"acc_bomba_st", "acc_riego_st", "acc_fert_st", "acc_sum_st",
              "dos_abrir_st", "dos_cerrar_st",
              "fin_valvula", "fin_estados", "err_valvula", "err_estados"}

\* C13: whenever no actuator-changing operation is between its driver call
\* and its registry update, the registry equals the driver state of every
\* actuator.
C13_RegistroIgualDriver ==
    (\A t \in Threads : pc[t] \notin PcAMedias) =>
        \A a \in Actuators : actuator_states[a] = estado[a]

\* C14: the second of two applications in a row of the same command makes
\* no driver call that reaches the hardware and leaves the actuators as the
\* first application left them.
C14_Idempotente ==
    [][hist.vez = 2 /\ LlamaDriver(Sup) => ~hist'.llamada /\ estado' = estado]_vars

\* the actuator whose driver a thread at pc l of _accionar_actuadores calls
ActuadorEnCurso(l) ==
    CASE l = "acc_bomba" -> "bomba"
      [] l = "acc_riego" -> "valvula_riego"
      [] l = "acc_sum" -> "valvula_suministro"
      [] OTHER -> "valvula_fertilizante"

\* the step in which an exception raised by a driver call of thread t
\* leaves _accionar_actuadores
ErrorPropagado(t) ==
    /\ pc[t] \in {"acc_bomba", "acc_riego", "acc_fert", "acc_sum", "dos_err"}
    /\ pc'[t] = ErrorAccionar(t)

\* C15: when the hardware call for an actuator fails during the apply step,
\* the error reaches the caller with that actuator recorded off, in the
\* driver's estado and in the registry.
C15_FalloDejaApagado ==
    [][ErrorPropagado(Sup) =>
          /\ ~estado'[ActuadorEnCurso(pc[Sup])]
          /\ ~actuator_states'[ActuadorEnCurso(pc[Sup])]]_vars

\* C16: in manual mode the evaluation returns the operator's command as it
\* is, without the thresholds, the model or the budget; if is_busy is set
\* the command is empty and the cycle goes on without the apply step.
C16_ManualVerbatim ==
    [][/\ pc[Sup] = "manual" /\ pc'[Sup] # "manual" =>
              /\ control_mode = "manual"
              /\ IF is_busy
                 THEN decision'[Sup] = EmptyDict /\ pc'[Sup] = "anomalias"
                 ELSE pc'[Sup] = "recibir"
       /\ pc[Sup] = "recibir" /\ pc'[Sup] # "recibir" =>
              /\ decision'[Sup] \in ComandosManuales
              /\ pc'[Sup] = IF decision'[Sup] = EmptyDict THEN "anomalias" ELSE "acc_check"
       /\ pc[Sup] \in {"manual", "recibir"} =>
              /\ total_daily_water' = total_daily_water
              /\ remaining_daily_water' = remaining_daily_water
              /\ daily_fertilizer_percentage' = daily_fertilizer_percentage
              /\ pc'[Sup] \notin {"auto", "presupuesto", "programar"}
      ]_vars

\* the operator's command is about to be applied although the humidity
\* is below the band
C16_Witness ==
    /\ control_mode = "manual" /\ pc[Sup] = "acc_check"
    /\ decision[Sup] = [inyectar_fertilizante |-> TRUE, porcentaje_fertilizante |-> 50]
    /\ Get(sensor_values, "humidity", 0) = 150

\* the supervisor takes its automatic decision in this step
Decide == pc[Sup] = "auto" /\ pc'[Sup] # "auto"

\* reading k of the snapshot is present and outside its band for season s
FueraDeBanda(sv, s, k) ==
    /\ k \in DOMAIN sv
    /\ sv[k] \notin UmbralesControlador(s)[k].min .. UmbralesControlador(s)[k].max

\* C17: in automatic mode the decision engine is consulted exactly when
\* every present reading is inside its band of the current season, the
\* bounds included; otherwise the emergency decision is returned and the
\* engine is not called.
C17_ModeloSiEnBanda ==
    [][Decide =>
          IF \E k \in SensorKeys : FueraDeBanda(sensor_values, season, k)
          THEN /\ decision'[Sup] = _acciones_emergencia(sensor_values)
               /\ pc'[Sup] # "presupuesto"
          ELSE /\ pc'[Sup] = "presupuesto"
               /\ \E pred \in Predicciones :
                      decision'[Sup] = evaluar(sensor_values, model_loaded, pred)
      ]_vars

\* every reading sat on a bound of its band, and the engine decided
C17_Witness ==
    /\ pc[Sup] = "presupuesto"
    /\ SensorKeys \subseteq DOMAIN sensor_values
    /\ \A k \in SensorKeys :
          sensor_values[k] \in {UmbralesControlador(season)[k].min,
                                UmbralesControlador(season)[k].max}
    /\ sensor_values.humidity = UmbralesControlador(season).humidity.min
    /\ sensor_values.flow_rate = UmbralesControlador(season).flow_rate.max

\* reading k is the only one outside its band for season s
SoloFuera(sv, s, k) ==
    /\ FueraDeBanda(sv, s, k)
    /\ \A j \in SensorKeys \ {k} : ~FueraDeBanda(sv, s, j)

\* C18: for every season, a reading just outside the season's band, the
\* others in band, puts the rule of that reading into the automatic
\* decision: humidity below the minimum or temperature above the maximum
\* switch pump and irrigation valve on, CE below the minimum injects
\* fertilizer, water level below the minimum opens the supply valve.
C18_ReglaDelCampo ==
    [][Decide =>
          LET sv == sensor_values
              um == UmbralesControlador(season)
              d  == decision'[Sup]
          IN  /\ SoloFuera(sv, season, "humidity") /\ sv.humidity < um.humidity.min
                    => Flag(d, "activar_bomba") /\ Flag(d, "abrir_valvula_riego")
              /\ SoloFuera(sv, season, "temperature") /\ sv.temperature > um.temperature.max
                    => Flag(d, "activar_bomba") /\ Flag(d, "abrir_valvula_riego")
              /\ SoloFuera(sv, season, "ce") /\ sv.ce < um.ce.min
                    => Flag(d, "inyectar_fertilizante")
              /\ SoloFuera(sv, season, "water_level") /\ sv.water_level < um.water_level.min
                    => Flag(d, "abrir_valvula_suministro")
      ]_vars

\* C19: when the emergency rules run, readings inside their band of the
\* current season set nothing: the pump and irrigation valve fields belong
\* to humidity and temperature, the injection field to pH and CE, the
\* supply valve field to CE and water level.
C19_EnBandaSinRegla ==
    [][Decide /\ (\E k \in SensorKeys : FueraDeBanda(sensor_values, season, k)) =>
          LET fuera(k) == FueraDeBanda(sensor_values, season, k)
              d == decision'[Sup]
          IN  /\ ~fuera("humidity") /\ ~fuera("temperature")
                    => "activar_bomba" \notin DOMAIN d /\ "abrir_valvula_riego" \notin DOMAIN d
              /\ ~fuera("ph") /\ ~fuera("ce")
                    => "inyectar_fertilizante" \notin DOMAIN d
              /\ ~fuera("ce") /\ ~fuera("water_level")
                    => "abrir_valvula_suministro" \notin DOMAIN d
      ]_vars

\* C20: in summer the dry snapshot (humidity 15 %, pH 6.5, CE 2.0, water
\* level 50 %) gives pump on and irrigation valve on through the emergency
\* rules, whether a model is loaded or not, and the engine is not called.
C20_VeranoSeco ==
    [][Decide /\ season = "summer" /\ sensor_values = Put(MuestraSeca, "season", "summer") =>
          /\ decision'[Sup] = [activar_bomba |-> TRUE, abrir_valvula_riego |-> TRUE]
          /\ decision'[Sup] = _acciones_emergencia(sensor_values)
          /\ pc'[Sup] = "acc_check"
      ]_vars

\* the dry summer snapshot was decided with a model loaded
C20_Witness ==
    /\ pc[Sup] = "acc_check" /\ season = "summer" /\ model_loaded
    /\ sensor_values = Put(MuestraSeca, "season", "summer")
    /\ Flag(decision[Sup], "activar_bomba")

\* C21: on the model path the prediction is clamped at zero and mapped:
\* pump and irrigation valve are on exactly when the water amount is
\* positive and the humidity is below the season's maximum, fertilizer is
\* injected exactly when the percentage is positive, the supply valve is
\* open exactly when the water level is below the season's minimum.
C21_MapeoDeLaPrediccion ==
    [][Decide =>
          \A p \in hist'.pred :
              p.ok =>
                  LET sv == sensor_values
                      um == UmbralesControlador(season)
                      d  == decision'[Sup]
                      riega == p.agua > 0 /\ Get(sv, "humidity", 1000) < um.humidity.max
                  IN  /\ d.activar_bomba = riega
                      /\ d.abrir_valvula_riego = riega
                      /\ d.cantidad_agua = IF riega THEN p.agua ELSE 0
                      /\ d.inyectar_fertilizante = (p.porcentaje > 0)
                      /\ d.porcentaje_fertilizante = Max(0, p.porcentaje)
                      /\ d.abrir_valvula_suministro =
                             ("water_level" \in DOMAIN sv
                                 /\ sv.water_level < um.water_level.min)
      ]_vars

\* a prediction with negative percentage and positive water was mapped
\* for a snapshot whose humidity sits on the season's maximum
C21_Witness ==
    /\ pc[Sup] = "presupuesto"
    /\ hist.pred = {[ok |-> TRUE, porcentaje |-> -5, agua |-> 10000]}
    /\ sensor_values.humidity = UmbralesControlador(season).humidity.max
    /\ ~decision[Sup].activar_bomba /\ ~decision[Sup].inyectar_fertilizante

\* C22: with no model loaded, or a prediction that failed or had an
\* unexpected shape, evaluar returns the default rules (humidity, CE and
\* water level against the minimum of their band) as an ordinary result,
\* and the cycle goes on as after a prediction.
C22_RespaldoPorDefecto ==
    [][/\ Decide
       /\ \A k \in SensorKeys : ~FueraDeBanda(sensor_values, season, k)
       /\ ~model_loaded \/ \E p \in hist'.pred : ~p.ok
       =>
          LET sv == sensor_values
              um == UmbralesControlador(season)
              seco == Get(sv, "humidity", 1000) < um.humidity.min
              pobre == Get(sv, "ce", 25) < um.ce.min
          IN  /\ decision'[Sup] =
                     [activar_bomba |-> seco, abrir_valvula_riego |-> seco,
                      cantidad_agua |-> IF seco THEN 10000 ELSE 0,
                      inyectar_fertilizante |-> pobre,
                      porcentaje_fertilizante |-> IF pobre THEN 5 ELSE 0,
                      abrir_valvula_suministro |->
                          Get(sv, "water_level", 1000) < um.water_level.min]
              /\ pc'[Sup] = "presupuesto"
      ]_vars

\* a loaded model failed to predict and the cycle is at the budget step
\* with the default decision
C22_Witness ==
    /\ pc[Sup] = "presupuesto" /\ model_loaded
    /\ hist.pred = {[ok |-> FALSE, porcentaje |-> 0, agua |-> 0]}
    /\ decision[Sup] = DecisionBase

\* the supervisor runs its anomaly check in this step
Verifica == pc[Sup] = "anomalias" /\ pc'[Sup] # "anomalias"

\* C23: the detector reports an anomaly exactly when no flow is expected
\* and the flow exceeds the minimal-flow threshold, or flow is expected and
\* the flow is below expected*(1 - tolerance) or above
\* expected*(1 + tolerance); flow is expected exactly when the registry has
\* pump and irrigation valve on; no reading at all is an anomaly. With
\* expected 30, tolerance 0.2, threshold 0.5: flow 0 off and 28 on are no
\* anomaly, flow 40 off and 5 on are.
C23_DetectorDeAnomalias ==
    [][Verifica =>
          LET f == Get(sensor_values, "flow_rate", 0)
              esperado == actuator_states["bomba"] /\ actuator_states["valvula_riego"]
          IN  /\ hist'.anomalia =
                     \/ f = SinLectura
                     \/ f # SinLectura /\ ~esperado /\ f > 5
                     \/ f # SinLectura /\ esperado /\ (f < 240 \/ f > 360)
              /\ f = 0 /\ ~esperado => ~hist'.anomalia
              /\ f = 400 /\ ~esperado => hist'.anomalia
              /\ f = 50 /\ esperado => hist'.anomalia
              /\ f = 280 /\ esperado => ~hist'.anomalia
      ]_vars

\* a flow of 5 L/min with pump and irrigation valve on was reported
C23_Witness ==
    /\ pc[Sup] = "publicar" /\ hist.anomalia
    /\ actuator_states["bomba"] /\ actuator_states["valvula_riego"]
    /\ Get(sensor_values, "flow_rate", 0) = 50

\* C24: the supervisor loop does not end: an error raised inside a cycle
\* abandons the rest of that cycle, a cooldown follows, and a next cycle
\* always starts.
C24_ElBucleSigue ==
    /\ [][pc[Sup] = "cooldown" /\ pc'[Sup] # "cooldown" => pc'[Sup] = "run_pending"]_vars
    /\ (pc[Sup] = "cooldown") ~> (pc[Sup] = "run_pending")
    /\ []<>(pc[Sup] = "run_pending")

\* a failed pin write has sent the supervisor to the cooldown
C24_Witness ==
    /\ pc[Sup] = "cooldown"
    /\ \E a \in Actuators : estado[a] # actuator_states[a]

\* the step of the cycle of iniciar a supervisor pc belongs to: 1 due
\* triggers, 2 acquisition, 3 decision, 4 actuation, 5 anomaly check,
\* 6 publication, 7 sleep; 0 is the cooldown after an exception
Etapa(l) ==
    CASE l = "cooldown" -> 0
      [] l = "run_pending" -> 1
      [] l = "leer" -> 2
      [] l \in {"obtener_modo", "cambiar_modo", "manual", "recibir", "auto",
                "presupuesto", "programar"} -> 3
      [] l = "anomalias" -> 5
      [] l = "publicar" -> 6
      [] l = "dormir" -> 7
      [] OTHER -> 4

\* C25: within a cycle the supervisor runs due triggers, acquisition,
\* decision, actuation, anomaly check and publication in that order, each
\* after the previous one has returned; only the actuation may be left out
\* (an empty decision) and only an exception cuts the cycle short.
C25_OrdenDelCiclo ==
    [][pc'[Sup] # pc[Sup] =>
          LET a == Etapa(pc[Sup])
              b == Etapa(pc'[Sup])
          IN  \/ b = a
              \/ b = a + 1
              \/ a = 3 /\ b = 5
              \/ b = 0
              \/ a \in {0, 7} /\ b = 1
      ]_vars

\* a cycle that decided, switched the pump on and is about to publish
C25_Witness ==
    /\ pc[Sup] = "publicar" /\ Flag(decision[Sup], "activar_bomba")
    /\ actuator_states["bomba"] /\ estado["bomba"]

\* a cloud synchronisation is in progress
EnSincronizacion == pc[Sup] = "sincronizando"

\* C26: while a cloud synchronisation is in progress the supervisor can go
\* on with the sensor acquisition and the rest of its cycle.
C26_SincronizacionNoBloquea ==
    EnSincronizacion => ENABLED Ciclo({MuestraNormal}, {EmptyDict}, Predicciones)

\* C27: in a cycle whose acquisition succeeded and that reaches the
\* anomaly check, _leer_sensores has been called once and
\* _accionar_actuadores once: the anomaly check is entered from the apply
\* step, never straight from the decision.
C27_AplicaUnaVez ==
    [][pc'[Sup] = "anomalias" /\ pc[Sup] # "anomalias" =>
          /\ Etapa(pc[Sup]) = 4
          /\ sensor_values # EmptyDict
      ]_vars

\* C28: is_busy is set in every state in which an irrigation run is
\* metering water: nothing clears it before the run's finalisation.
C28_OcupadoDuranteElRiego ==
    \A r \in Riego : pc[r] = "medir" => is_busy

\* the pcs at which the supervisor is inside a call to the operator
\* interface (lines 312, 329, 142), the decision engine (342) or the cloud
\* (724)
PcLlamadaExterna == {"obtener_modo", "recibir", "auto", "publicar", "sincronizando"}

\* C29: no task holds the lock while it is inside a call to the operator
\* interface, the cloud or the decision engine.
C29_SinCandadoEnLlamadas ==
    pc[Sup] \in PcLlamadaExterna => lock = Libre

\* C30: while an irrigation run holds the busy flag no step changes the
\* daily budget: neither the supervisor's automatic replan nor an event's
\* deduction.
C30_PresupuestoQuietoEnRiego ==
    [][(is_busy /\ \E r \in Riego : EnRiego(r))
         => UNCHANGED <<total_daily_water, remaining_daily_water,
                        daily_fertilizer_percentage>>]_vars

\* C31: the emergency rules run in the order humidity, temperature, pH, CE,
\* water level, and a field keeps the value of the last rule that fired on
\* it: humidity and temperature both below the season's minimum give pump
\* and irrigation valve off, pH out of band with CE below the minimum gives
\* fertilizer percent 10, CE above the maximum with the water level above
\* the maximum gives the supply valve closed.
C31_UltimaReglaGana ==
    [][Decide /\ ~_verificar_umbrales(sensor_values, season) =>
          LET sv == sensor_values
              um == UmbralesControlador(season)
              d  == decision'[Sup]
          IN  /\ sv.humidity < um.humidity.min /\ sv.temperature < um.temperature.min
                    => /\ "activar_bomba" \in DOMAIN d /\ ~d.activar_bomba
                       /\ "abrir_valvula_riego" \in DOMAIN d /\ ~d.abrir_valvula_riego
              /\ FueraDeBanda(sv, season, "ph") /\ sv.ce < um.ce.min
                    => Get(d, "porcentaje_fertilizante", 0) = 10
              /\ sv.ce > um.ce.max /\ "water_level" \in DOMAIN sv
                                   /\ sv.water_level > um.water_level.max
                    => /\ "abrir_valvula_suministro" \in DOMAIN d
                       /\ ~d.abrir_valvula_suministro
      ]_vars

\* C32: the jobs for the cloud stay bounded: the scheduler never holds more
\* than one job that calls _sincronizar_con_nube nor more than one hourly
\* retry of _programar_sincronizacion_semanal.
C32_TareasDeNubeAcotadas ==
    sync_jobs.sincronizar <= 1 /\ sync_jobs.reintento <= 1

\* the pcs at which a thread is inside a call that takes a sensor's lock:
\* sensor.leer() in _leer_sensores, flow_sensor.lock and detectar_fallo in
\* _verificar_anomalias (lines 252-256), flow_sensor.leer() in the metering
\* loop (line 555)
PcConCandadoDeSensor == {"leer", "anomalias", "medir"}

\* C33: no deadlock on the locks: self.lock is only taken when it is free,
\* its holder is the supervisor inside the manual block, no thread holds it
\* where it takes a sensor's lock, every holder releases it, and an
\* irrigation thread waiting for it at its first step gets it.
C33_SinInterbloqueo ==
    /\ [][lock' # lock /\ lock' # Libre => lock = Libre]_vars
    /\ [](lock # Libre => lock = Sup /\ pc[Sup] = "recibir")
    /\ [](\A t \in Threads : pc[t] \in PcConCandadoDeSensor => lock # t)
    /\ (lock # Libre) ~> (lock = Libre)
    /\ \A r \in Riego : (pc[r] = "inicio") ~> (pc[r] # "inicio")

\* the supervisor holds the lock while an irrigation thread waits for it
C33_Witness ==
    lock = Sup /\ \E r \in Riego : pc[r] = "inicio"

C35_CaudalBajoEsEmergencia ==
    /\ [][Decide /\ Get(sensor_values, "flow_rate", 10) < 10 =>
            /\ decision'[Sup] = _acciones_emergencia(sensor_values)
            /\ pc'[Sup] \in {"acc_check", "anomalias"}
            /\ hist'.pred = {}
            /\ UNCHANGED <<total_daily_water, remaining_daily_water,
                           daily_fertilizer_percentage, jobs, irrigation_schedule>>
        ]_vars
    /\ [](pc[Sup] \in {"presupuesto", "programar"}
             => Get(sensor_values, "flow_rate", 10) >= 10)

\* flow 0 with the pump off, every other reading in band and a model
\* loaded: the cycle went to the anomaly check with an empty decision
C35_Witness ==
    /\ pc[Sup] = "anomalias" /\ control_mode = "automatic" /\ model_loaded
    /\ sensor_values = Put([MuestraNormal EXCEPT !.flow_rate = 0], "season", season)
    /\ ~estado["bomba"] /\ decision[Sup] = EmptyDict

\* C36: once a non-empty command has been applied, every actuator whose
\* field is absent from the command or false in it is off, in its driver
\* and in the registry, whatever its state was before: the decision with
\* abrir_valvula_suministro alone leaves pump, irrigation valve and
\* fertilizer valve off.
C36_AusenteEsApagado ==
    pc[Sup] = "anomalias" /\ DOMAIN decision[Sup] # {} =>
        LET d == decision[Sup]
            apagado(a) == ~estado[a] /\ ~actuator_states[a]
        IN  /\ ~Flag(d, "activar_bomba") => apagado("bomba")
            /\ ~Flag(d, "abrir_valvula_riego") => apagado("valvula_riego")
            /\ ~Flag(d, "inyectar_fertilizante") => apagado("valvula_fertilizante")
            /\ ~Flag(d, "abrir_valvula_suministro") => apagado("valvula_suministro")
            /\ d = [abrir_valvula_suministro |-> TRUE] =>
                  /\ estado = [a \in Actuators |-> a = "valvula_suministro"]
                  /\ actuator_states = estado

\* the decision with the supply valve field alone has been applied
C36_Witness ==
    /\ pc[Sup] = "anomalias" /\ decision[Sup] = [abrir_valvula_suministro |-> TRUE]
    /\ estado["valvula_suministro"] /\ ~estado["bomba"] /\ hist.vez = 1

\* C37: the registry has the fertilizer valve open only inside a dosing
\* run, with is_busy set, and whenever _accionar_actuadores returns
\* normally the registry has it closed.
C37_FertilizanteSoloEnDosificacion ==
    /\ [](actuator_states["valvula_fertilizante"]
             => is_busy /\ \E t \in Threads : EnDosificacion(t))
    /\ [][\A t \in Threads :
             pc[t] \in {"acc_sum", "acc_sum_st"} /\ pc'[t] = AfterAccionar(t)
                 => ~actuator_states'["valvula_fertilizante"]]_vars

\* C38: as long as daily_fertilizer_percentage has not been assigned
\* nothing remains of the budget, and an event that fires then is a no-op:
\* it deducts nothing, starts no thread and does not read the attribute.
C38_NuncaSinAsignar ==
    /\ [](daily_fertilizer_percentage = Unassigned => remaining_daily_water = 0)
    /\ [][EventoDisparado /\ daily_fertilizer_percentage = Unassigned =>
            /\ hist'.evento = "noop"
            /\ UNCHANGED <<pc, decision, riego, remaining_daily_water>>]_vars

\* an event has fired before the first decision of the engine
C38_Witness ==
    /\ hist.evento = "noop" /\ daily_fertilizer_percentage = Unassigned
    /\ pc[Sup] = "run_pending"

\* C39: with no usable model (none loaded, or a prediction that failed)
\* the decision evaluar gives the controller activates nothing and asks
\* for no water; the budget it establishes is 0, and while nothing remains
\* every event that fires is a no-op.
C39_SinModeloNadaSeActiva ==
    /\ [][Decide /\ pc'[Sup] = "presupuesto"
            /\ (~model_loaded \/ \E p \in hist'.pred : ~p.ok)
            => decision'[Sup] = DecisionBase]_vars
    /\ [][pc[Sup] = "presupuesto" /\ pc'[Sup] # "presupuesto"
            /\ decision[Sup] = DecisionBase
            => /\ total_daily_water' = 0 /\ remaining_daily_water' = 0
               /\ daily_fertilizer_percentage' = <<0>>]_vars
    /\ [][EventoDisparado /\ remaining_daily_water = 0
            => /\ hist'.evento = "noop"
               /\ UNCHANGED <<pc, decision, riego, remaining_daily_water>>]_vars

\* with no model loaded the default decision set the budget to 0 and an
\* event fired after that
C39_Witness ==
    /\ ~model_loaded /\ hist.evento = "noop"
    /\ total_daily_water = 0 /\ daily_fertilizer_percentage = <<0>>

\* C40: the anomaly check, whether it reports or not, leaves the registry,
\* the driver states, is_busy, the control mode, the budget, the triggers
\* and the decision as they were: a reported leak or blockage switches
\* nothing off.
C40_VerificarNoCambiaNada ==
    [][Verifica =>
          /\ pc'[Sup] = "publicar"
          /\ UNCHANGED <<actuator_states, estado, is_busy, control_mode, lock,
                         total_daily_water, remaining_daily_water,
                         daily_fertilizer_percentage, decision, jobs,
                         irrigation_schedule, sensor_values>>
      ]_vars

\* a flow of 40 L/min, above the tolerance, was reported with pump and
\* irrigation valve on, and both are still on
C40_Witness ==
    /\ pc[Sup] = "publicar" /\ hist.anomalia
    /\ Get(sensor_values, "flow_rate", 0) = 400
    /\ estado["bomba"] /\ estado["valvula_riego"]
    /\ actuator_states["bomba"] /\ actuator_states["valvula_riego"]

====
